---- MODULE Spec2Model ----
(***************************************************************************)
(* The buffer pipeline of raspi-tex.c: the camera preview callback         *)
(* (preview_output_cb), the render worker (preview_worker,                 *)
(* preview_process_returned_bufs, raspitex_draw) and the lifecycle calls   *)
(* (raspitex_configure_preview_port, raspitex_start, raspitex_stop,        *)
(* raspitex_destroy).                                                      *)
(*                                                                         *)
(* Three threads of control take steps: the caller ("main"), the worker    *)
(* thread and the MMAL callback context.  MMAL queues are sequences of     *)
(* buffer headers; a buffer header is a number in Buffers.                 *)
(***************************************************************************)
EXTENDS Integers, Sequences, FiniteSets, TLC

\* preview_port->buffer_num_recommended: the capacity of the pool.
NumBuffers == 3
\* How many times the caller may call raspitex_destroy.
MaxDestroyCalls == 2
\* The frame time stamps (buf->pts) run from -500 * MaxTicks to 500 * MaxTicks.
MaxTicks == 8

Buffers == 1..NumBuffers
NULL == 0
EGL_NO_IMAGE_KHR == 0

VARIABLES
  mainPc,         \* where the caller is in configure / start / stop / destroy
  workerPc,       \* where preview_worker is
  preview_stop,   \* state->preview_stop (0 or 1)
  preview_pool,   \* state->preview_pool is non-NULL
  preview_queue,  \* state->preview_queue is non-NULL
  pool_q,         \* preview_pool->queue: the free buffer headers, in order
  frame_q,        \* the contents of preview_queue, in order
  cb_enabled,     \* the port is enabled with preview_output_cb
  producer,       \* the buffer headers the preview port holds
  buf,            \* the worker's local buf (NULL when it holds none)
  preview_buf,    \* state->preview_buf
  current_buf,    \* state->current_buf
  egl_image,      \* the buffer behind state->egl_image, or EGL_NO_IMAGE_KHR
  is_ready,       \* state->is_ready
  fault,          \* a destroyed pool or queue has been used
  cfg,            \* the steps raspitex_configure_preview_port took and its result
  poolDestroys,   \* calls of mmal_pool_destroy so far
  queueDestroys,  \* calls of mmal_queue_destroy so far
  destroyCalls,   \* calls of raspitex_destroy so far
  last,           \* the operation that took the last step and its argument
  bound,          \* buffers whose image was bound since they left the pool
  presented,      \* of those, the ones whose frame was presented
  boundAfter,     \* of those, the ones a later frame's bind has followed
  bind_failed,    \* the buffer whose raspitexutil_update_texture failed
  send_failed,    \* the buffers whose mmal_port_send_buffer failed
  present_failed, \* an eglSwapBuffers call has failed
  prev_buff_time, \* state->prev_buff_time, in halves (2 stands for 1.0)
  curr_buff_time, \* state->curr_buff_time, in halves
  frame_pts,      \* buf->pts of the frame drawn last
  prev_pts,       \* buf->pts of the frame drawn before it
  frames_drawn,   \* frames drawn so far: 0, 1, or 2 for two and more
  enqOrder        \* the buffers the callback enqueued and the worker has
                  \* not yet dequeued, oldest first

vars == << mainPc, workerPc, preview_stop, preview_pool, preview_queue,
           pool_q, frame_q, cb_enabled, producer, buf, preview_buf,
           current_buf, egl_image, is_ready, fault, cfg, poolDestroys,
           queueDestroys, destroyCalls, last, bound, presented, boundAfter,
           bind_failed, send_failed, present_failed, prev_buff_time,
           curr_buff_time, frame_pts, prev_pts, frames_drawn, enqOrder >>

lifecycleVars == << mainPc, preview_pool, preview_queue, cb_enabled, cfg,
                    poolDestroys, queueDestroys, destroyCalls >>
historyVars == << bound, presented, boundAfter, bind_failed, enqOrder >>
drawVars == << preview_buf, current_buf, egl_image, is_ready >>
timeVars == << prev_buff_time, curr_buff_time, frame_pts, prev_pts,
               frames_drawn >>

Range(s) == { s[i] : i \in 1..Len(s) }
Remove(s, x) == SelectSeq(s, LAMBDA y : y # x)
Op(name, b) == [op |-> name, buf |-> b]

\* memset(state, 0, ...) and the sentinels of raspitex_set_defaults.
Init ==
  /\ mainPc = "new"
  /\ workerPc = "idle"
  /\ preview_stop = 0
  /\ preview_pool = FALSE
  /\ preview_queue = FALSE
  /\ pool_q = << >>
  /\ frame_q = << >>
  /\ cb_enabled = FALSE
  /\ producer = {}
  /\ buf = NULL
  /\ preview_buf = NULL
  /\ current_buf = NULL
  /\ egl_image = EGL_NO_IMAGE_KHR
  /\ is_ready = FALSE
  /\ fault = FALSE
  /\ cfg = [st |-> << >>, log |-> << >>, rc |-> 0]
  /\ poolDestroys = 0
  /\ queueDestroys = 0
  /\ destroyCalls = 0
  /\ last = Op("set_defaults", NULL)
  /\ bound = {}
  /\ presented = {}
  /\ boundAfter = {}
  /\ bind_failed = NULL
  /\ send_failed = {}
  /\ present_failed = FALSE
  /\ prev_buff_time = 0
  /\ curr_buff_time = 0
  /\ frame_pts = 0
  /\ prev_pts = 0
  /\ frames_drawn = 0
  /\ enqOrder = << >>

(***************************************************************************)
(* MMAL primitives as the code uses them.                                  *)
(***************************************************************************)
\* mmal_queue_put that puts b at the head.
mmal_queue_put_front(q, b) == << b >> \o q

\* mmal_queue_put(q, b): b goes to the tail.
mmal_queue_put(q, b) == Append(q, b)
\* mmal_queue_get(q): the head, or NULL when the queue is empty.
mmal_queue_get(q) == IF q = << >> THEN NULL ELSE Head(q)
mmal_queue_rest(q) == IF q = << >> THEN q ELSE Tail(q)
\* mmal_buffer_header_release(b): b goes back to its pool's queue.
mmal_buffer_header_release(q, b) == mmal_queue_put(q, b)
\* mmal_port_pool_create(port, buffer_num, buffer_size)
mmal_port_pool_create == [i \in 1..NumBuffers |-> i]


(***************************************************************************)
(* The caller: raspitex_configure_preview_port, raspitex_start,            *)
(* raspitex_stop, raspitex_destroy.                                        *)
(***************************************************************************)
ConfigSteps == << "zero_copy", "format_commit", "pool_create",
                  "queue_create", "port_enable" >>

\* raspitex_configure_preview_port without the goto end after a failed
\* mmal_queue_create.
configure_preview_port_no_abort(st) ==
  IF ~st["zero_copy"]
  THEN [log |-> << "zero_copy" >>,
        pool |-> FALSE, queue |-> FALSE, cb |-> FALSE, rc |-> -1]
  ELSE IF ~st["format_commit"]
  THEN [log |-> << "zero_copy", "format_commit" >>,
        pool |-> FALSE, queue |-> FALSE, cb |-> FALSE, rc |-> -1]
  ELSE IF ~st["pool_create"]
  THEN [log |-> << "zero_copy", "format_commit", "pool_create" >>,
        pool |-> FALSE, queue |-> FALSE, cb |-> FALSE, rc |-> -1]
  ELSE IF ~st["port_enable"]
  THEN [log |-> ConfigSteps,
        pool |-> TRUE, queue |-> st["queue_create"], cb |-> FALSE, rc |-> -1]
  ELSE [log |-> ConfigSteps,
        pool |-> TRUE, queue |-> st["queue_create"], cb |-> TRUE, rc |-> 0]

\* What raspitex_configure_preview_port does when the external calls end
\* as st says (st[x] is TRUE when call x succeeds): the calls it makes, in
\* order, whether pool, queue and callback are set, and its return value.
configure_preview_port(st) ==
  IF ~st["zero_copy"]
  THEN [log |-> << "zero_copy" >>,
        pool |-> FALSE, queue |-> FALSE, cb |-> FALSE, rc |-> -1]
  ELSE IF ~st["format_commit"]
  THEN [log |-> << "zero_copy", "format_commit" >>,
        pool |-> FALSE, queue |-> FALSE, cb |-> FALSE, rc |-> -1]
  ELSE IF ~st["pool_create"]
  THEN [log |-> << "zero_copy", "format_commit", "pool_create" >>,
        pool |-> FALSE, queue |-> FALSE, cb |-> FALSE, rc |-> -1]
  ELSE IF ~st["queue_create"]
  THEN [log |-> << "zero_copy", "format_commit", "pool_create",
                   "queue_create" >>,
        pool |-> TRUE, queue |-> FALSE, cb |-> FALSE, rc |-> -1]
  ELSE IF ~st["port_enable"]
  THEN [log |-> ConfigSteps,
        pool |-> TRUE, queue |-> TRUE, cb |-> FALSE, rc |-> -1]
  ELSE [log |-> ConfigSteps,
        pool |-> TRUE, queue |-> TRUE, cb |-> TRUE, rc |-> 0]

raspitex_configure_preview_port ==
  /\ mainPc = "new"
  /\ \E st \in [Range(ConfigSteps) -> BOOLEAN] :
       LET r == configure_preview_port(st) IN
       /\ cfg' = [st |-> [i \in 1..Len(ConfigSteps) |-> st[ConfigSteps[i]]],
                  log |-> r.log, rc |-> r.rc]
       /\ preview_pool' = r.pool
       /\ pool_q' = IF r.pool THEN mmal_port_pool_create ELSE pool_q
       /\ preview_queue' = r.queue
       /\ cb_enabled' = r.cb
       /\ mainPc' = IF r.rc = 0 THEN "configured" ELSE "cfg_failed"
  /\ last' = Op("configure", NULL)
  /\ UNCHANGED << timeVars, send_failed, present_failed,
                  workerPc, preview_stop, frame_q, producer, buf, drawVars,
                  fault, poolDestroys, queueDestroys, destroyCalls,
                  historyVars >>

\* vcos_thread_create succeeds (the worker starts) or fails.
raspitex_start ==
  /\ mainPc = "configured"
  /\ \E ok \in BOOLEAN :
       /\ mainPc' = IF ok THEN "started" ELSE "start_failed"
       /\ workerPc' = IF ok THEN "init" ELSE workerPc
  /\ last' = Op("start", NULL)
  /\ UNCHANGED << timeVars, send_failed, present_failed,
                  preview_stop, preview_pool, preview_queue, pool_q, frame_q,
                  cb_enabled, producer, buf, drawVars, fault, cfg,
                  poolDestroys, queueDestroys, destroyCalls, historyVars >>

\* raspitex_stop up to the join: with the flag clear it sets the flag and
\* waits for the worker; with the flag already set it returns at once.
raspitex_stop ==
  /\ mainPc = "started"
  /\ IF preview_stop = 0
     THEN /\ preview_stop' = 1
          /\ mainPc' = "joining"
     ELSE /\ preview_stop' = preview_stop
          /\ mainPc' = "stopped"
  /\ last' = Op("stop", NULL)
  /\ UNCHANGED << timeVars, send_failed, present_failed,
                  workerPc, preview_pool, preview_queue, pool_q, frame_q,
                  cb_enabled, producer, buf, drawVars, fault, cfg,
                  poolDestroys, queueDestroys, destroyCalls, historyVars >>

\* vcos_thread_join returns once the worker thread has returned.
raspitex_stop_join ==
  /\ mainPc = "joining"
  /\ workerPc = "done"
  /\ mainPc' = "stopped"
  /\ last' = Op("join", NULL)
  /\ UNCHANGED << timeVars, send_failed, present_failed,
                  workerPc, preview_stop, preview_pool, preview_queue, pool_q,
                  frame_q, cb_enabled, producer, buf, drawVars, fault, cfg,
                  poolDestroys, queueDestroys, destroyCalls, historyVars >>

\* raspitex_destroy that leaves state->preview_pool set.
raspitex_destroy_keeps_handle ==
  /\ mainPc \in { "new", "cfg_failed", "configured", "start_failed",
                  "stopped", "destroyed" }
  /\ destroyCalls < MaxDestroyCalls
  /\ destroyCalls' = destroyCalls + 1
  /\ poolDestroys' = IF preview_pool THEN poolDestroys + 1 ELSE poolDestroys
  /\ pool_q' = IF preview_pool THEN << >> ELSE pool_q
  /\ preview_pool' = preview_pool
  /\ queueDestroys' = IF preview_queue THEN queueDestroys + 1
                                       ELSE queueDestroys
  /\ frame_q' = IF preview_queue THEN << >> ELSE frame_q
  /\ preview_queue' = FALSE
  /\ mainPc' = "destroyed"
  /\ last' = Op("destroy", NULL)
  /\ UNCHANGED << timeVars, send_failed, present_failed,
                  workerPc, preview_stop, cb_enabled, producer, buf, drawVars,
                  fault, cfg, historyVars >>

\* raspitex_destroy, called once stop has returned or when no worker runs.
raspitex_destroy ==
  /\ mainPc \in { "new", "cfg_failed", "configured", "start_failed",
                  "stopped", "destroyed" }
  /\ destroyCalls < MaxDestroyCalls
  /\ destroyCalls' = destroyCalls + 1
  /\ poolDestroys' = IF preview_pool THEN poolDestroys + 1 ELSE poolDestroys
  /\ pool_q' = IF preview_pool THEN << >> ELSE pool_q
  /\ preview_pool' = FALSE
  /\ queueDestroys' = IF preview_queue THEN queueDestroys + 1
                                       ELSE queueDestroys
  /\ frame_q' = IF preview_queue THEN << >> ELSE frame_q
  /\ preview_queue' = FALSE
  /\ mainPc' = "destroyed"
  /\ last' = Op("destroy", NULL)
  /\ UNCHANGED << timeVars, send_failed, present_failed,
                  workerPc, preview_stop, cb_enabled, producer, buf, drawVars,
                  fault, cfg, historyVars >>

(***************************************************************************)
(* The MMAL callback of the preview port.                                  *)
(***************************************************************************)
FrameKinds == { "eos", "null", "frame" }

\* The branch preview_output_cb takes: kind "eos" is buf->length == 0, "null"
\* is buf->data == NULL with a length, "frame" is any other buffer.
output_cb_null_stops(kind) ==
  IF kind = "eos" THEN [stop |-> TRUE, release |-> TRUE, put |-> FALSE]
  ELSE IF kind = "null" THEN [stop |-> TRUE, release |-> TRUE, put |-> FALSE]
  ELSE [stop |-> FALSE, release |-> FALSE, put |-> TRUE]

output_cb_branch(kind) ==
  IF kind = "eos" THEN [stop |-> TRUE, release |-> TRUE, put |-> FALSE]
  ELSE IF kind = "null" THEN [stop |-> FALSE, release |-> TRUE, put |-> FALSE]
  ELSE [stop |-> FALSE, release |-> FALSE, put |-> TRUE]

\* What preview_output_cb does with buffer b.  A release or a put after
\* raspitex_destroy uses a destroyed pool or queue.
output_cb_effect(b, kind) ==
  LET br == output_cb_branch(kind) IN
  /\ producer' = producer \ {b}
  /\ preview_stop' = IF br.stop THEN 1 ELSE preview_stop
  /\ pool_q' = IF br.release /\ preview_pool
               THEN mmal_buffer_header_release(pool_q, b) ELSE pool_q
  /\ frame_q' = IF br.put /\ preview_queue
                THEN mmal_queue_put(frame_q, b) ELSE frame_q
  /\ enqOrder' = IF br.put /\ preview_queue
                 THEN Append(enqOrder, b) ELSE enqOrder
  /\ fault' = (fault \/ (br.release /\ ~preview_pool)
                     \/ (br.put /\ ~preview_queue))
  /\ last' = Op(kind, b)
  /\ UNCHANGED << timeVars, send_failed, present_failed,
                  lifecycleVars, workerPc, buf, drawVars, bound, presented,
                  boundAfter, bind_failed >>

\* preview_output_cb that waits while preview_queue holds two frames.
preview_output_cb_waits(b, kind) ==
  /\ cb_enabled
  /\ b \in producer
  /\ kind = "frame" => Len(frame_q) < 2
  /\ output_cb_effect(b, kind)

\* preview_output_cb, called by the enabled port with a buffer b it holds.
preview_output_cb(b, kind) ==
  /\ cb_enabled
  /\ b \in producer
  /\ output_cb_effect(b, kind)

(***************************************************************************)
(* The worker thread: preview_worker, preview_process_returned_bufs and    *)
(* raspitex_draw, one action per step between two points where the caller  *)
(* or the callback may run.                                                *)
(***************************************************************************)
WorkerStep == last' = Op("worker", NULL)

\* A preview_worker that clears the stop flag when it starts.
preview_worker_init_clears_stop ==
  /\ workerPc = "init"
  /\ preview_stop' = 0
  /\ \E window_ok \in BOOLEAN, scene_ok \in BOOLEAN, ready \in BOOLEAN :
       IF window_ok /\ scene_ok
       THEN /\ workerPc' = "loop"
            /\ is_ready' = ready
       ELSE /\ workerPc' = "drain"
            /\ is_ready' = (window_ok /\ ready)
  /\ WorkerStep
  /\ UNCHANGED << timeVars, send_failed, present_failed,
                  lifecycleVars, pool_q, frame_q, producer, buf,
                  preview_buf, current_buf, egl_image, fault, historyVars >>

\* raspitexutil_create_native_window and sbpp_init: either may fail, and
\* then the worker goes to its exit code.  state->is_ready is set outside
\* raspi-tex.c; it is read after these two calls only.
preview_worker_init ==
  /\ workerPc = "init"
  /\ \E window_ok \in BOOLEAN, scene_ok \in BOOLEAN, ready \in BOOLEAN :
       IF window_ok /\ scene_ok
       THEN /\ workerPc' = "loop"
            /\ is_ready' = ready
       ELSE /\ workerPc' = "drain"
            /\ is_ready' = (window_ok /\ ready)
  /\ WorkerStep
  /\ UNCHANGED << timeVars, send_failed, present_failed,
                  lifecycleVars, preview_stop, pool_q, frame_q, producer, buf,
                  preview_buf, current_buf, egl_image, fault, historyVars >>

\* while (state->preview_stop == 0)
preview_worker_loop ==
  /\ workerPc = "loop"
  /\ workerPc' = IF preview_stop = 0 THEN "refill" ELSE "drain"
  /\ WorkerStep
  /\ UNCHANGED << timeVars, send_failed, present_failed,
                  lifecycleVars, preview_stop, pool_q, frame_q, producer, buf,
                  drawVars, fault, historyVars >>

\* One turn of the loop that sends the free buffers to the preview port:
\* mmal_queue_get on the pool's queue, then mmal_port_send_buffer, whose
\* failure is logged and nothing else.
preview_worker_refill ==
  /\ workerPc = "refill"
  /\ preview_pool
  /\ LET b == mmal_queue_get(pool_q) IN
       IF b = NULL
       THEN /\ workerPc' = "process"
            /\ UNCHANGED << pool_q, producer, bound, presented, boundAfter,
                            send_failed >>
       ELSE /\ workerPc' = "refill"
            /\ pool_q' = mmal_queue_rest(pool_q)
            /\ \E sent \in BOOLEAN :
                 /\ producer' = IF sent THEN producer \cup {b} ELSE producer
                 /\ send_failed' = IF sent THEN send_failed \ {b}
                                           ELSE send_failed \cup {b}
            /\ bound' = bound \ {b}
            /\ presented' = presented \ {b}
            /\ boundAfter' = boundAfter \ {b}
  /\ WorkerStep
  /\ UNCHANGED << timeVars, present_failed,
                  lifecycleVars, preview_stop, frame_q, buf, drawVars, fault,
                  bind_failed, enqOrder >>

\* A preview_process_returned_bufs that draws every buffer it dequeues.
process_returned_bufs_get_draws_always ==
  /\ workerPc = "process"
  /\ preview_queue
  /\ LET b == mmal_queue_get(frame_q) IN
       /\ buf' = b
       /\ frame_q' = mmal_queue_rest(frame_q)
       /\ enqOrder' = IF b = NULL THEN enqOrder ELSE Remove(enqOrder, b)
       /\ workerPc' = IF b = NULL THEN "loop" ELSE "bind"
  /\ WorkerStep
  /\ UNCHANGED << timeVars, send_failed, present_failed,
                  lifecycleVars, preview_stop, pool_q, producer, drawVars,
                  fault, bound, presented, boundAfter, bind_failed >>

\* while ((buf = mmal_queue_get(state->preview_queue)) != NULL), and the
\* test of preview_stop that follows it.
process_returned_bufs_get ==
  /\ workerPc = "process"
  /\ preview_queue
  /\ LET b == mmal_queue_get(frame_q) IN
       /\ buf' = b
       /\ frame_q' = mmal_queue_rest(frame_q)
       /\ enqOrder' = IF b = NULL THEN enqOrder ELSE Remove(enqOrder, b)
       /\ workerPc' = IF b = NULL THEN "loop"
                      ELSE IF preview_stop = 0 THEN "bind" ELSE "yield"
  /\ WorkerStep
  /\ UNCHANGED << timeVars, send_failed, present_failed,
                  lifecycleVars, preview_stop, pool_q, producer, drawVars,
                  fault, bound, presented, boundAfter, bind_failed >>

\* usleep(0)
process_returned_bufs_yield ==
  /\ workerPc = "yield"
  /\ workerPc' = "process"
  /\ WorkerStep
  /\ UNCHANGED << timeVars, send_failed, present_failed,
                  lifecycleVars, preview_stop, pool_q, frame_q, producer, buf,
                  drawVars, fault, historyVars >>

\* raspitex_draw with the release of the previous preview_buf moved in front
\* of raspitexutil_update_texture.
raspitex_draw_bind_release_first ==
  /\ workerPc = "bind"
  /\ pool_q' = IF preview_buf # NULL
               THEN mmal_buffer_header_release(pool_q, preview_buf)
               ELSE pool_q
  /\ preview_buf' = NULL
  /\ IF is_ready
     THEN \E ok \in BOOLEAN :
            IF ok
            THEN /\ egl_image' = buf
                 /\ bound' = bound \cup {buf}
                 /\ boundAfter' = boundAfter \cup presented
                 /\ workerPc' = "retain"
                 /\ UNCHANGED bind_failed
            ELSE /\ workerPc' = "draw_err"
                 /\ bind_failed' = buf
                 /\ UNCHANGED << egl_image, bound, boundAfter >>
     ELSE /\ workerPc' = "retain"
          /\ UNCHANGED << egl_image, bound, boundAfter, bind_failed >>
  /\ WorkerStep
  /\ UNCHANGED << timeVars, send_failed, present_failed,
                  lifecycleVars, preview_stop, frame_q, producer, buf,
                  current_buf, is_ready, fault, presented, enqOrder >>

\* raspitex_draw: if (state->is_ready) raspitexutil_update_texture(buf->data).
\* A successful update makes buf the buffer behind state->egl_image.
raspitex_draw_bind ==
  /\ workerPc = "bind"
  /\ IF is_ready
     THEN \E ok \in BOOLEAN :
            IF ok
            THEN /\ egl_image' = buf
                 /\ bound' = bound \cup {buf}
                 /\ boundAfter' = boundAfter \cup presented
                 /\ workerPc' = "retain"
                 /\ UNCHANGED bind_failed
            ELSE /\ workerPc' = "draw_err"
                 /\ bind_failed' = buf
                 /\ UNCHANGED << egl_image, bound, boundAfter >>
     ELSE /\ workerPc' = "retain"
          /\ UNCHANGED << egl_image, bound, boundAfter, bind_failed >>
  /\ WorkerStep
  /\ UNCHANGED << timeVars, send_failed, present_failed,
                  lifecycleVars, preview_stop, pool_q, frame_q, producer, buf,
                  preview_buf, current_buf, is_ready, fault, presented,
                  enqOrder >>

\* raspitex_draw: release the previous preview_buf, keep buf in its place.
raspitex_draw_retain ==
  /\ workerPc = "retain"
  /\ preview_buf # NULL => preview_pool
  /\ pool_q' = IF preview_buf # NULL
               THEN mmal_buffer_header_release(pool_q, preview_buf)
               ELSE pool_q
  /\ preview_buf' = buf
  /\ workerPc' = "redraw"
  /\ WorkerStep
  /\ UNCHANGED << timeVars, send_failed, present_failed,
                  lifecycleVars, preview_stop, frame_q, producer, buf,
                  current_buf, egl_image, is_ready, fault, historyVars >>

\* raspitex_draw: with an EGL image, set current_buf and call sbpp_redraw,
\* which may fail; without one, return 0.  The two frame times it sets
\* before sbpp_redraw touch nothing else here: raspitex_draw_times has them.
raspitex_draw_redraw ==
  /\ workerPc = "redraw"
  /\ IF egl_image # EGL_NO_IMAGE_KHR
     THEN /\ current_buf' = buf
          /\ \E ok \in BOOLEAN :
               workerPc' = IF ok THEN "present" ELSE "draw_err"
     ELSE /\ workerPc' = "yield"
          /\ UNCHANGED current_buf
  /\ WorkerStep
  /\ UNCHANGED << timeVars, send_failed, present_failed,
                  lifecycleVars, preview_stop, pool_q, frame_q, producer, buf,
                  preview_buf, egl_image, is_ready, fault, historyVars >>

\* raspitex_draw: eglSwapBuffers, whose result is not read; return 0.
raspitex_draw_present ==
  /\ workerPc = "present"
  /\ \E ok \in BOOLEAN : present_failed' = (present_failed \/ ~ok)
  /\ presented' = presented \cup {egl_image}
  /\ workerPc' = "yield"
  /\ WorkerStep
  /\ UNCHANGED << timeVars, send_failed,
                  lifecycleVars, preview_stop, pool_q, frame_q, producer, buf,
                  drawVars, fault, bound, boundAfter, bind_failed, enqOrder >>

\* A preview_process_returned_bufs that goes on to the next buffer when
\* raspitex_draw returned non-zero.
process_returned_bufs_error_goes_on ==
  /\ workerPc = "draw_err"
  /\ workerPc' = "yield"
  /\ WorkerStep
  /\ UNCHANGED << timeVars, send_failed, present_failed,
                  lifecycleVars, preview_stop, pool_q, frame_q, producer, buf,
                  drawVars, fault, historyVars >>

\* preview_process_returned_bufs after raspitex_draw returned non-zero:
\* state->preview_stop = 1; return rc.  Its local buf is gone with it.
process_returned_bufs_error ==
  /\ workerPc = "draw_err"
  /\ preview_stop' = 1
  /\ buf' = NULL
  /\ workerPc' = "worker_err"
  /\ WorkerStep
  /\ UNCHANGED << timeVars, send_failed, present_failed,
                  lifecycleVars, pool_q, frame_q, producer, drawVars, fault,
                  historyVars >>

\* preview_worker after preview_process_returned_bufs returned non-zero.
preview_worker_error ==
  /\ workerPc = "worker_err"
  /\ preview_stop' = 1
  /\ workerPc' = "loop"
  /\ WorkerStep
  /\ UNCHANGED << timeVars, send_failed, present_failed,
                  lifecycleVars, pool_q, frame_q, producer, buf, drawVars,
                  fault, historyVars >>

\* The exit code of preview_worker: release what preview_queue holds, then
\* raspitexutil_gl_term (which ends the EGL image) and return.
preview_worker_drain ==
  /\ workerPc = "drain"
  /\ preview_queue /\ preview_pool
  /\ LET b == mmal_queue_get(frame_q) IN
       IF b = NULL
       THEN /\ workerPc' = "done"
            /\ egl_image' = EGL_NO_IMAGE_KHR
            /\ UNCHANGED << frame_q, pool_q, enqOrder >>
       ELSE /\ workerPc' = "drain"
            /\ frame_q' = mmal_queue_rest(frame_q)
            /\ pool_q' = mmal_buffer_header_release(pool_q, b)
            /\ enqOrder' = Remove(enqOrder, b)
            /\ UNCHANGED egl_image
  /\ WorkerStep
  /\ UNCHANGED << timeVars, send_failed, present_failed,
                  lifecycleVars, preview_stop, producer, buf, preview_buf,
                  current_buf, is_ready, fault, bound, presented, boundAfter,
                  bind_failed >>

\* The worker reaches for the pool or the queue after raspitex_destroy.
preview_worker_fault ==
  /\ \/ workerPc = "refill" /\ ~preview_pool
     \/ workerPc = "process" /\ ~preview_queue
     \/ workerPc = "retain" /\ preview_buf # NULL /\ ~preview_pool
     \/ workerPc = "drain" /\ ~(preview_queue /\ preview_pool)
  /\ fault' = TRUE
  /\ workerPc' = "crashed"
  /\ WorkerStep
  /\ UNCHANGED << timeVars, send_failed, present_failed,
                  lifecycleVars, preview_stop, pool_q, frame_q, producer, buf,
                  drawVars, historyVars >>

Callback == \E b \in Buffers, kind \in FrameKinds : preview_output_cb(b, kind)

\* Everything preview_worker does, one step at a time.
WorkerNext ==
  \/ preview_worker_init
  \/ preview_worker_loop
  \/ preview_worker_refill
  \/ process_returned_bufs_get
  \/ process_returned_bufs_yield
  \/ raspitex_draw_bind
  \/ raspitex_draw_retain
  \/ raspitex_draw_redraw
  \/ raspitex_draw_present
  \/ process_returned_bufs_error
  \/ preview_worker_error
  \/ preview_worker_drain
  \/ preview_worker_fault

Next ==
  \/ raspitex_configure_preview_port
  \/ raspitex_start
  \/ raspitex_stop
  \/ raspitex_stop_join
  \/ raspitex_destroy
  \/ Callback
  \/ preview_worker_init
  \/ preview_worker_loop
  \/ preview_worker_refill
  \/ process_returned_bufs_get
  \/ process_returned_bufs_yield
  \/ raspitex_draw_bind
  \/ raspitex_draw_retain
  \/ raspitex_draw_redraw
  \/ raspitex_draw_present
  \/ process_returned_bufs_error
  \/ preview_worker_error
  \/ preview_worker_drain
  \/ preview_worker_fault

Spec == Init /\ [][Next]_vars

\* The worker is a thread of its own (vcos_thread_create): the scheduler
\* runs it whenever it can take a step, and the calls it makes return.
FairSpec == Spec /\ WF_vars(WorkerNext)

(***************************************************************************)
(* The frame times of raspitex_draw.  The two doubles are kept in halves,  *)
(* which is exact for the time stamps used here, all multiples of 500.     *)
(***************************************************************************)
PtsValues == { 500 * k : k \in (0 - MaxTicks)..MaxTicks }

\* ((double)state->current_buf->pts) / 1000.0
pts_to_time(pts) == (2 * pts) \div 1000

\* A frame time left as it is, negative or not.
keep_sign(t) == t

\* state->curr_buff_time *= (1 - 2 * (state->curr_buff_time < 0))
sign_correct(t) == t * (1 - 2 * (IF t < 0 THEN 1 ELSE 0))

pipelineVars == << mainPc, workerPc, preview_stop, preview_pool,
                   preview_queue, pool_q, frame_q, cb_enabled, producer, buf,
                   preview_buf, current_buf, egl_image, is_ready, fault, cfg,
                   poolDestroys, queueDestroys, destroyCalls, last, bound,
                   presented, boundAfter, bind_failed, send_failed,
                   present_failed, enqOrder >>

\* What raspitex_draw does to the two frame times for a frame it draws,
\* given the pts of that frame's buffer.
raspitex_draw_times ==
  /\ \E pts \in PtsValues :
       /\ prev_buff_time' = curr_buff_time
       /\ curr_buff_time' = sign_correct(pts_to_time(pts))
       /\ prev_pts' = frame_pts
       /\ frame_pts' = pts
  /\ frames_drawn' = IF frames_drawn < 2 THEN frames_drawn + 1 ELSE 2
  /\ UNCHANGED pipelineVars

NextTime == raspitex_draw_times

\* The frame times over every sequence of time stamps.
SpecTime == Init /\ [][NextTime]_vars

TypeOK ==
  /\ preview_stop \in {0, 1}
  /\ buf \in Buffers \cup {NULL}
  /\ preview_buf \in Buffers \cup {NULL}
  /\ egl_image \in Buffers \cup {EGL_NO_IMAGE_KHR}
  /\ producer \subseteq Buffers
  /\ send_failed \subseteq Buffers
  /\ present_failed \in BOOLEAN
  /\ frames_drawn \in 0..2
  /\ frame_pts \in PtsValues /\ prev_pts \in PtsValues

(***************************************************************************)
(* Where the buffers are.                                                  *)
(***************************************************************************)
\* The buffers the worker holds: its local buf and state->preview_buf.
WorkerHeld == { buf, preview_buf } \ { NULL }
\* The buffers that are in no place at all.
Leaked == Buffers \ (Range(pool_q) \cup producer \cup Range(frame_q)
                       \cup WorkerHeld)
\* This step puts b on the pool's queue.
Released(b) == b \notin Range(pool_q) /\ b \in Range(pool_q')

(***************************************************************************)
(* C1  Deferred release (P1).  A buffer whose image was bound is put back  *)
(* on the pool's queue only when its present has returned and the bind of  *)
(* a later frame has happened, and never while it is the buffer behind     *)
(* the current EGL image.                                                  *)
(***************************************************************************)
P1_DeferredRelease ==
  [][ \A b \in Buffers :
        Released(b) =>
          /\ egl_image # b
          /\ b \in bound => (b \in presented /\ b \in boundAfter) ]_vars

\* A frame was bound, drawn and presented, a later frame was bound, and the
\* first frame's buffer is back in the pool.
P1_Witness ==
  \E b \in Range(pool_q) :
    b \in bound /\ b \in presented /\ b \in boundAfter /\ egl_image # b
                /\ egl_image # EGL_NO_IMAGE_KHR

(***************************************************************************)
(* C2  Drain on shutdown (P5).  Once raspitex_stop has returned, all       *)
(* NumBuffers buffers are free in the pool and preview_queue is empty.     *)
(***************************************************************************)
P5_DrainOnShutdown ==
  mainPc = "stopped" =>
    /\ Range(pool_q) = Buffers
    /\ Len(pool_q) = NumBuffers
    /\ frame_q = << >>

(***************************************************************************)
(* C3  Join semantics of stop.  Once raspitex_stop has returned, the       *)
(* worker thread has returned.                                             *)
(***************************************************************************)
StopJoinsWorker == mainPc = "stopped" => workerPc = "done"

(***************************************************************************)
(* C4  Malformed-frame handling (P4).  While the pool exists, a callback   *)
(* with a zero-length buffer sets preview_stop, puts the buffer on the     *)
(* pool's queue once and leaves preview_queue alone; a callback with a     *)
(* null data handle does the same but leaves preview_stop as it was.       *)
(***************************************************************************)
P4_MalformedFrame ==
  [][ preview_pool =>
        /\ last'.op = "eos" =>
             /\ preview_stop' = 1
             /\ pool_q' = Append(pool_q, last'.buf)
             /\ frame_q' = frame_q
             /\ last'.buf \notin producer'
        /\ last'.op = "null" =>
             /\ preview_stop' = preview_stop
             /\ pool_q' = Append(pool_q, last'.buf)
             /\ frame_q' = frame_q
             /\ last'.buf \notin producer' ]_vars

\* A null-handle buffer was just released while the stop flag is clear.
P4_Witness ==
  /\ last.op = "null"
  /\ preview_stop = 0
  /\ last.buf \in Range(pool_q)
  /\ last.buf \notin Range(frame_q)

(***************************************************************************)
(* C5  FIFO ordering (P2).  The buffer the worker takes to raspitex_draw   *)
(* is the oldest one the callback enqueued that has not been dequeued.     *)
(***************************************************************************)
P2_FifoOrder ==
  [][ (workerPc = "process" /\ workerPc' = "bind") =>
        (enqOrder # << >> /\ buf' = Head(enqOrder)) ]_vars

\* The worker is drawing a frame while younger frames wait in the queue.
P2_Witness ==
  /\ workerPc = "bind"
  /\ buf # NULL
  /\ Len(frame_q) >= 2
  /\ enqOrder = frame_q

(***************************************************************************)
(* C6  No leak on the fatal-error path.  When the worker has returned      *)
(* after a failed raspitexutil_update_texture (and the pool still          *)
(* exists), the buffer whose bind failed is back in the pool and so is     *)
(* the buffer that was retained in preview_buf.                            *)
(***************************************************************************)
BindFailureLeaksNothing ==
  (workerPc = "done" /\ bind_failed # NULL /\ preview_pool) =>
    /\ bind_failed \in Range(pool_q)
    /\ preview_buf # NULL => preview_buf \in Range(pool_q)

(***************************************************************************)
(* C7  Safe teardown.  With raspitex_destroy called after raspitex_stop    *)
(* returned, pool and queue are destroyed only when the worker is not      *)
(* running and no buffer is with the port or the worker.                   *)
(***************************************************************************)
SafeTeardown ==
  (poolDestroys > 0 \/ queueDestroys > 0) =>
    /\ workerPc \in { "idle", "done" }
    /\ producer = {}
    /\ WorkerHeld = {}

(***************************************************************************)
(* C8  raspitex_configure_preview_port makes its calls in the order zero   *)
(* copy, format commit, pool, queue, port enable, up to and including the  *)
(* first one that fails; it returns 0 only when all succeeded; until       *)
(* raspitex_destroy the pool is set exactly when pool creation succeeded,  *)
(* the queue exactly when queue creation succeeded, and the callback is    *)
(* registered only when all five succeeded, so only with pool and queue.   *)
(***************************************************************************)
Succeeded(n) == Len(cfg.st) = Len(ConfigSteps) /\ \A i \in 1..n : cfg.st[i]
FirstFailure ==
  IF Succeeded(Len(ConfigSteps)) THEN Len(ConfigSteps)
  ELSE CHOOSE k \in 1..Len(ConfigSteps) : Succeeded(k - 1) /\ ~cfg.st[k]

ConfigureAbortsInOrder ==
  mainPc # "new" /\ Len(cfg.st) > 0 =>
    /\ cfg.log = SubSeq(ConfigSteps, 1, FirstFailure)
    /\ cfg.rc = IF Succeeded(Len(ConfigSteps)) THEN 0 ELSE -1
    /\ cb_enabled => Succeeded(Len(ConfigSteps))
    /\ destroyCalls = 0 =>
         /\ preview_pool <=> Succeeded(3)
         /\ preview_queue <=> Succeeded(4)
         /\ cb_enabled <=> Succeeded(5)
         /\ cb_enabled => (preview_pool /\ preview_queue)
         /\ producer # {} => (preview_pool /\ preview_queue)

\* Queue creation failed: an error is returned, the pool stays in the
\* state and the port was not enabled.
Configure_Witness ==
  /\ mainPc = "cfg_failed"
  /\ cfg.rc = -1
  /\ preview_pool
  /\ ~preview_queue
  /\ ~cb_enabled
  /\ Len(cfg.log) = 4

(***************************************************************************)
(* C9  raspitex_destroy is nil-safe and idempotent.  After any number of   *)
(* calls, both handles are unset, the pool was destroyed once if it was    *)
(* created and never otherwise, and the same holds for the queue.          *)
(***************************************************************************)
DestroyNilSafeIdempotent ==
  /\ poolDestroys <= 1
  /\ queueDestroys <= 1
  /\ destroyCalls > 0 =>
       /\ ~preview_pool
       /\ ~preview_queue
       /\ poolDestroys = IF Succeeded(3) THEN 1 ELSE 0
       /\ queueDestroys = IF Succeeded(4) THEN 1 ELSE 0

\* raspitex_destroy was called twice on a state that has a pool and no queue.
Destroy_Witness ==
  /\ destroyCalls >= 2
  /\ Succeeded(3)
  /\ ~Succeeded(4)
  /\ poolDestroys = 1
  /\ queueDestroys = 0

(***************************************************************************)
(* C10  Non-blocking producer (P3).  Whenever the port holds a buffer,     *)
(* preview_output_cb can run to its end with it, whatever the buffer is,   *)
(* wherever the worker is, whatever preview_stop is and however many       *)
(* frames preview_queue holds.                                             *)
(***************************************************************************)
P3_NonBlockingProducer ==
  \A b \in producer : \A kind \in FrameKinds :
    ENABLED preview_output_cb(b, kind)

\* The port holds a buffer while the queue holds every other one and the
\* stop flag is set.
P3_Witness ==
  /\ producer # {}
  /\ Len(frame_q) = NumBuffers - 1
  /\ preview_stop = 1
  /\ workerPc \notin { "idle", "done", "crashed" }


(***************************************************************************)
(* C11  Single retained buffer.  Whenever the worker is between two        *)
(* frames (raspitex_draw is not running and its failure is not being       *)
(* handled), the only buffer it took off preview_queue and has not put     *)
(* back on the pool's queue is preview_buf.                                *)
(***************************************************************************)
\* Where the worker is while raspitex_draw runs.
DrawPcs == { "bind", "retain", "redraw", "present" }
\* Where the worker is between two frames.
BetweenFrames == workerPc \in { "loop", "refill", "process", "yield",
                                "drain", "done" }
\* The buffers the worker took off preview_queue and neither kept nor
\* released: the ones in no place that did not get there by a failed send.
WorkerDropped == Leaked \ send_failed

SingleRetainedBuffer ==
  (preview_pool /\ BetweenFrames) =>
    (WorkerHeld \cup WorkerDropped) \subseteq { preview_buf }

(***************************************************************************)
(* C12  Presentation failure is fatal.  Once an eglSwapBuffers call has    *)
(* failed, the worker is not in raspitex_draw for a later frame: it binds, *)
(* retains, redraws and presents nothing more.                             *)
(***************************************************************************)
PresentFailureIsFatal == present_failed => workerPc \notin DrawPcs

(***************************************************************************)
(* C13  Binding failure is fatal.  Once raspitexutil_update_texture has    *)
(* failed for a frame, that frame is neither redrawn nor presented and     *)
(* its image is not the current one, the worker is in raspitex_draw for    *)
(* no later frame, and from the return of preview_process_returned_bufs    *)
(* on the stop flag is set.                                                *)
(***************************************************************************)
BindFailureIsFatal ==
  bind_failed # NULL =>
    /\ workerPc \notin DrawPcs
    /\ bind_failed \notin presented
    /\ current_buf # bind_failed
    /\ egl_image # bind_failed
    /\ workerPc # "draw_err" => preview_stop = 1

\* A bind has failed, the worker is in its exit code and a later frame is
\* still waiting in preview_queue.
BindFailure_Witness ==
  /\ bind_failed # NULL
  /\ workerPc = "drain"
  /\ frame_q # << >>

(***************************************************************************)
(* C14  Transient handoff failure is retried.  A buffer whose              *)
(* mmal_port_send_buffer failed, and that has not been sent since, is on   *)
(* the pool's queue, where the next turn of the loop finds it.             *)
(***************************************************************************)
SendFailureKeepsBuffer ==
  preview_pool => \A b \in send_failed : b \in Range(pool_q)

(***************************************************************************)
(* C15  Draining releases what it dequeues.  With the stop flag set, a     *)
(* buffer the worker took off preview_queue is back on the pool's queue    *)
(* when the worker moves on to the next one, unless it is the frame the    *)
(* worker drew and keeps as preview_buf.                                   *)
(***************************************************************************)
DrainReleasesDequeued ==
  (preview_pool /\ preview_stop = 1 /\ workerPc = "yield" /\ buf # NULL) =>
    (buf \in Range(pool_q) \/ buf = preview_buf)

(***************************************************************************)
(* C16  Cancellation via the stop flag.  The worker enters raspitex_draw   *)
(* only for a buffer it dequeued while the stop flag was 0, so none is     *)
(* started once the flag is set; a raspitex_draw that is running when the  *)
(* flag is set goes on through its steps to its own return.                *)
(***************************************************************************)
CancellationViaStopFlag ==
  [][ /\ (workerPc \notin DrawPcs /\ workerPc' \in DrawPcs) =>
           (preview_stop = 0 /\ workerPc = "process" /\ buf' # NULL)
      /\ (workerPc \in DrawPcs /\ workerPc' # workerPc) =>
           workerPc' \in DrawPcs \cup { "yield", "draw_err", "crashed" } ]_vars

\* The flag was set while raspitex_draw was running: the draw has gone on
\* to its present, and a later frame waits in preview_queue.
Cancellation_Witness ==
  /\ preview_stop = 1
  /\ workerPc = "present"
  /\ frame_q # << >>

(***************************************************************************)
(* C17  Stop flag monotonicity.  No step of the callback, the worker,      *)
(* raspitex_start, raspitex_stop or raspitex_destroy takes preview_stop    *)
(* from 1 back to 0.                                                       *)
(***************************************************************************)
StopFlagMonotone == [][ preview_stop = 1 => preview_stop' = 1 ]_vars

\* The flag is still set after the worker has returned and the caller has
\* destroyed the preview.
StopFlag_Witness ==
  /\ preview_stop = 1
  /\ workerPc = "done"
  /\ mainPc = "destroyed"

(***************************************************************************)
(* C18  Worker termination.  With the worker scheduled fairly and every    *)
(* call it makes returning, once the stop flag is set the worker           *)
(* eventually returns from preview_worker, whatever the callback does      *)
(* with the buffers the port holds -- unless the caller destroys the pool  *)
(* and the queue first.                                                    *)
(***************************************************************************)
WorkerTerminates ==
  (preview_stop = 1) ~> (workerPc = "done" \/ destroyCalls > 0)

(***************************************************************************)
(* C19  Frame interval never negative.  For two frames drawn one after     *)
(* the other, curr_buff_time - prev_buff_time is not negative.             *)
(***************************************************************************)
FrameIntervalNonNegative ==
  frames_drawn = 2 => curr_buff_time - prev_buff_time >= 0

Abs(x) == IF x < 0 THEN 0 - x ELSE x

\* C19 as the code has it: each frame time is the absolute value of its
\* frame's pts / 1000, so it is never negative, and prev_buff_time is that
\* of the frame drawn before; the interval is non-negative exactly when the
\* later frame's pts is not the smaller of the two in absolute value.
FrameTimeNonNegative ==
  /\ curr_buff_time >= 0
  /\ prev_buff_time >= 0
  /\ frames_drawn >= 1 => curr_buff_time = Abs(pts_to_time(frame_pts))
  /\ frames_drawn = 2 =>
       /\ prev_buff_time = Abs(pts_to_time(prev_pts))
       /\ (curr_buff_time - prev_buff_time >= 0) <=>
            (Abs(frame_pts) >= Abs(prev_pts))

\* Frames with pts 2000 and then 1500 were drawn: the interval is -0.5.
FrameTime_Witness ==
  /\ frames_drawn = 2
  /\ prev_pts = 2000
  /\ frame_pts = 1500
  /\ curr_buff_time - prev_buff_time = 0 - 1

(***************************************************************************)
(* C20  Exclusive buffer ownership.  While the pool exists every buffer    *)
(* of it is in exactly one place: once on the pool's queue, with the       *)
(* port, once on preview_queue, or with the worker (buf or preview_buf).   *)
(***************************************************************************)
\* How many times b is on the queue q.
Occurrences(q, b) == Cardinality({ i \in DOMAIN q : q[i] = b })
\* In how many places b is.
PlaceCount(b) ==
  Occurrences(pool_q, b) + Occurrences(frame_q, b)
    + (IF b \in producer THEN 1 ELSE 0)
    + (IF b \in WorkerHeld THEN 1 ELSE 0)

ExclusiveOwnership ==
  preview_pool => \A b \in Buffers : PlaceCount(b) = 1
====
